---- MODULE Spec2Model ----
(***************************************************************************)
(* A model of the BinaryTree<T, Compare, Equal> container (binarytree.hpp, *)
(* kept here as src/unnamed/part_000) and of the element types and         *)
(* functors of src/main.cpp.                                               *)
(*                                                                         *)
(* The free store is modelled explicitly: every `new Node` takes the next  *)
(* unused address, every `delete` counts a release of its address, and an  *)
(* address is never handed out twice, so that "each node ever allocated"   *)
(* has a name.  A `new` may throw std::bad_alloc; which one does is an     *)
(* input of the action that allocates.                                     *)
(***************************************************************************)
EXTENDS Integers, Sequences, FiniteSets, TLC

\* ----------------------------------------------------------------- bounds
\* Number of addresses the free store can hand out over a whole run.
MaxNodes == 5
\* Element ids are 1..MaxId.
MaxId == 3
\* Longest initial sequence given to the range constructor.
MaxSeq == 3
\* Number of new-expressions that may throw std::bad_alloc over a whole run.
MaxFail == 1

\* ------------------------------------------------------- values, functors
\* nullptr
NULL == 0

Addr == 1..MaxNodes

\* The trees of the program: two objects of one BinaryTree instantiation.
TreeIds == {"A", "B"}

\* CustomType {id, name}: one record per id, and a second record of id 1
\* that differs from the first in its name alone.
Values == {[id |-> i, name |-> "one"] : i \in 1..MaxId} \cup {[id |-> 1, name |-> "uno"]}

\* Placeholder where an operation takes no value.
NoValue == [id |-> 0, name |-> ""]

\* The Compare functors a tree can be instantiated with: CustomTypeCompare
\* (ascending by id) and its mirror image (descending by id).
Orders == {"less", "greater"}

\* Compare::operator()(lhs, rhs)
compare(c, lhs, rhs) == IF c = "less" THEN lhs.id < rhs.id ELSE lhs.id > rhs.id

\* Equal::operator()(lhs, rhs): CustomTypeEqual
equal(lhs, rhs) == lhs.id = rhs.id

\* T::operator<, the one the iterator uses: CustomType::operator<
OperatorLess(lhs, rhs) == lhs.id < rhs.id

\* Node(const T& value) : data(value), left(nullptr), right(nullptr)
Node(value) == [data |-> value, left |-> NULL, right |-> NULL]

\* ------------------------------------------------------------------ state
VARIABLES
    Compare,    \* Compare(): the value of a default-constructed Compare functor
    heap,       \* address -> Node; keeps its content after a delete
    live,       \* addresses allocated and not released
    released,   \* address -> number of times it was deleted
    nalloc,     \* number of addresses handed out so far
    nfail,      \* number of new-expressions that threw std::bad_alloc so far
    trees,      \* tree id -> [life, root, node_count, compare]
    inserted,   \* tree id -> the values handed to it by successful insertions
    it,         \* the const_iterator of the program
    last,       \* the outcome of the last call
    os,         \* what the last call wrote to its output stream
    ub,         \* the undefined behaviour the run has executed, if any
    crashed     \* the undefined behaviour ended the process

vars == <<Compare, heap, live, released, nalloc, nfail, trees, inserted, it, last, os,
          ub, crashed>>

\* A tree object before its construction and after its destruction.  Each
\* object is constructed at most once; a constructor that throws leaves no
\* object.
NoTree == [life |-> "unborn", root |-> NULL, node_count |-> 0, compare |-> "less"]

DeadTree == [life |-> "dead", root |-> NULL, node_count |-> 0, compare |-> "less"]

\* A tree object with its members root, node_count and compare.
Tree(root, node_count, c) ==
    [life |-> "alive", root |-> root, node_count |-> node_count, compare |-> c]

NoIterator == [active |-> FALSE, t |-> "A", current |-> NULL, root |-> NULL,
               steps |-> 0, out |-> <<>>]

\* What the caller sees of a call: the member called, the exception it threw
\* ("none" when it returned), and its bool or size_t result.
Call(op, exc, found, n) == [op |-> op, exc |-> exc, found |-> found, n |-> n]

\* ---------------------------------------------------- the private helpers
\* Range of a sequence.
Range(s) == {s[i] : i \in 1..Len(s)}

\* insert with the arguments of its ordering test exchanged.
RECURSIVE insert_exchanged(_, _, _, _, _, _, _)
insert_exchanged(h, count, c, node, value, allocOK, fresh) ==
    IF node = NULL THEN
        IF allocOK
        THEN [exc |-> "none", heap |-> [h EXCEPT ![fresh] = Node(value)],
              count |-> count + 1, ret |-> fresh, alloc |-> TRUE]
        ELSE [exc |-> "bad_alloc", heap |-> h,
              count |-> count + 1, ret |-> NULL, alloc |-> TRUE]
    ELSE IF equal(value, h[node].data) THEN
        [exc |-> "runtime_error", heap |-> h, count |-> count, ret |-> NULL,
         alloc |-> FALSE]
    ELSE IF compare(c, h[node].data, value) THEN
        LET r == insert_exchanged(h, count, c, h[node].left, value, allocOK, fresh)
        IN  IF r.exc # "none" THEN r
            ELSE [r EXCEPT !.heap = [r.heap EXCEPT ![node].left = r.ret],
                           !.ret = node]
    ELSE
        LET r == insert_exchanged(h, count, c, h[node].right, value, allocOK, fresh)
        IN  IF r.exc # "none" THEN r
            ELSE [r EXCEPT !.heap = [r.heap EXCEPT ![node].right = r.ret],
                           !.ret = node]

\* insert that tests for a duplicate at the root alone.
RECURSIVE insert_below(_, _, _, _, _, _, _)
insert_below(h, count, c, node, value, allocOK, fresh) ==
    IF node = NULL THEN
        IF allocOK
        THEN [exc |-> "none", heap |-> [h EXCEPT ![fresh] = Node(value)],
              count |-> count + 1, ret |-> fresh, alloc |-> TRUE]
        ELSE [exc |-> "bad_alloc", heap |-> h,
              count |-> count + 1, ret |-> NULL, alloc |-> TRUE]
    ELSE IF compare(c, value, h[node].data) THEN
        LET r == insert_below(h, count, c, h[node].left, value, allocOK, fresh)
        IN  IF r.exc # "none" THEN r
            ELSE [r EXCEPT !.heap = [r.heap EXCEPT ![node].left = r.ret],
                           !.ret = node]
    ELSE
        LET r == insert_below(h, count, c, h[node].right, value, allocOK, fresh)
        IN  IF r.exc # "none" THEN r
            ELSE [r EXCEPT !.heap = [r.heap EXCEPT ![node].right = r.ret],
                           !.ret = node]

insert_root_only(h, count, c, node, value, allocOK, fresh) ==
    IF node # NULL /\ equal(value, h[node].data)
    THEN [exc |-> "runtime_error", heap |-> h, count |-> count, ret |-> NULL,
          alloc |-> FALSE]
    ELSE insert_below(h, count, c, node, value, allocOK, fresh)

\* insert that puts the new node on top of the tree, the former root below
\* it.
insert_on_top(h, count, c, node, value, allocOK, fresh) ==
    IF node # NULL /\ equal(value, h[node].data)
    THEN [exc |-> "runtime_error", heap |-> h, count |-> count, ret |-> NULL,
          alloc |-> FALSE]
    ELSE IF ~allocOK
    THEN [exc |-> "bad_alloc", heap |-> h, count |-> count + 1, ret |-> NULL,
          alloc |-> TRUE]
    ELSE [exc |-> "none",
          heap |-> [h EXCEPT ![fresh] =
                       IF node # NULL /\ compare(c, value, h[node].data)
                       THEN [data |-> value, left |-> NULL, right |-> node]
                       ELSE [data |-> value, left |-> node, right |-> NULL]],
          count |-> count + 1, ret |-> fresh, alloc |-> TRUE]

\* Node* insert(Node* node, const T& value): the result of the recursive
\* descent.  `count` is node_count, `fresh` the address `new` returns when
\* allocOK, and the result is
\*   exc   "none", "runtime_error" (duplicate) or "bad_alloc"
\*   heap  the free store after the call
\*   count node_count after the call
\*   ret   the returned pointer (meaningless when exc # "none")
\*   alloc whether `new` was reached
RECURSIVE insert(_, _, _, _, _, _, _)
insert(h, count, c, node, value, allocOK, fresh) ==
    IF node = NULL THEN
        \* node_count++ comes before the new-expression
        IF allocOK
        THEN [exc |-> "none", heap |-> [h EXCEPT ![fresh] = Node(value)],
              count |-> count + 1, ret |-> fresh, alloc |-> TRUE]
        ELSE [exc |-> "bad_alloc", heap |-> h,
              count |-> count + 1, ret |-> NULL, alloc |-> TRUE]
    ELSE IF equal(value, h[node].data) THEN
        [exc |-> "runtime_error", heap |-> h, count |-> count, ret |-> NULL,
         alloc |-> FALSE]
    ELSE IF compare(c, value, h[node].data) THEN
        LET r == insert(h, count, c, h[node].left, value, allocOK, fresh)
        IN  IF r.exc # "none" THEN r
            ELSE [r EXCEPT !.heap = [r.heap EXCEPT ![node].left = r.ret],
                           !.ret = node]
    ELSE
        LET r == insert(h, count, c, h[node].right, value, allocOK, fresh)
        IN  IF r.exc # "none" THEN r
            ELSE [r EXCEPT !.heap = [r.heap EXCEPT ![node].right = r.ret],
                           !.ret = node]

\* exists that descends to the right where the code descends to the left.
RECURSIVE exists_exchanged(_, _, _, _)
exists_exchanged(h, c, node, value) ==
    IF node = NULL THEN FALSE
    ELSE IF equal(h[node].data, value) THEN TRUE
    ELSE IF compare(c, value, h[node].data)
         THEN exists_exchanged(h, c, h[node].right, value)
         ELSE exists_exchanged(h, c, h[node].left, value)

\* bool exists(Node* node, const T& value) const
RECURSIVE exists(_, _, _, _)
exists(h, c, node, value) ==
    IF node = NULL THEN FALSE
    ELSE IF equal(h[node].data, value) THEN TRUE
    ELSE IF compare(c, value, h[node].data) THEN exists(h, c, h[node].left, value)
    ELSE exists(h, c, h[node].right, value)

\* find_subtree that returns the node it is given when the value is found
\* anywhere below it.
find_subtree_whole(h, c, node, value) ==
    IF exists(h, c, node, value) THEN node ELSE NULL

\* find_subtree that descends to the right where the code descends to the
\* left.
RECURSIVE find_subtree_exchanged(_, _, _, _)
find_subtree_exchanged(h, c, node, value) ==
    IF node = NULL THEN NULL
    ELSE IF equal(h[node].data, value) THEN node
    ELSE IF compare(c, value, h[node].data)
         THEN find_subtree_exchanged(h, c, h[node].right, value)
         ELSE find_subtree_exchanged(h, c, h[node].left, value)

\* Node* find_subtree(Node* node, const T& value) const
RECURSIVE find_subtree(_, _, _, _)
find_subtree(h, c, node, value) ==
    IF node = NULL THEN NULL
    ELSE IF equal(h[node].data, value) THEN node
    ELSE IF compare(c, value, h[node].data) THEN find_subtree(h, c, h[node].left, value)
    ELSE find_subtree(h, c, h[node].right, value)

\* void print_in_order(Node* node, std::ostream& os) const: the elements it
\* writes to os, in the order it writes them.
RECURSIVE print_in_order(_, _)
print_in_order(h, node) ==
    IF node = NULL THEN <<>>
    ELSE print_in_order(h, h[node].left) \o <<h[node].data>> \o print_in_order(h, h[node].right)

\* destroy_tree that deletes a node before the nodes below it.
RECURSIVE destroy_top_down(_, _)
destroy_top_down(h, node) ==
    IF node = NULL THEN <<>>
    ELSE <<node>> \o destroy_top_down(h, h[node].left) \o destroy_top_down(h, h[node].right)

\* destroy_tree that deletes the node it is given and none below it.
destroy_root_only(h, node) == IF node = NULL THEN <<>> ELSE <<node>>

\* void destroy_tree(Node* node): the addresses it deletes, in the order it
\* deletes them.
RECURSIVE destroy_tree(_, _)
destroy_tree(h, node) ==
    IF node = NULL THEN <<>>
    ELSE destroy_tree(h, h[node].left) \o destroy_tree(h, h[node].right) \o <<node>>

\* size_t count_nodes(Node* node) const
RECURSIVE count_nodes(_, _)
count_nodes(h, node) ==
    IF node = NULL THEN 0
    ELSE 1 + count_nodes(h, h[node].left) + count_nodes(h, h[node].right)

\* copy_subtree that copies the pointer, not the nodes.
copy_shallow(h, src, next, fuel) ==
    [exc |-> FALSE, heap |-> h, dest |-> src, next |-> next, fuel |-> fuel]

\* void copy_subtree(Node*& dest, Node* src) const.  `next` is the number of
\* addresses handed out before the call and `fuel` the number of `new` that
\* still succeed; the one after them throws std::bad_alloc.  The result is
\*   exc   whether the call threw
\*   heap  the free store after the call
\*   dest  the value of the reference `dest` after the call (it is nullptr
\*         before it at every call site)
\*   next, fuel  as above, after the call
RECURSIVE copy_subtree(_, _, _, _)
copy_subtree(h, src, next, fuel) ==
    IF src = NULL THEN
        [exc |-> FALSE, heap |-> h, dest |-> NULL, next |-> next, fuel |-> fuel]
    ELSE IF fuel = 0 THEN
        [exc |-> TRUE, heap |-> h, dest |-> NULL, next |-> next, fuel |-> fuel]
    ELSE
        LET d  == next + 1
            h1 == [h EXCEPT ![d] = Node(h[src].data)]
            l  == IF h[src].left # NULL
                  THEN copy_subtree(h1, h[src].left, d, fuel - 1)
                  ELSE [exc |-> FALSE, heap |-> h1, dest |-> NULL,
                        next |-> d, fuel |-> fuel - 1]
            h2 == [l.heap EXCEPT ![d].left = l.dest]
            r  == IF l.exc THEN l
                  ELSE IF h[src].right # NULL
                  THEN copy_subtree(h2, h[src].right, l.next, l.fuel)
                  ELSE [exc |-> FALSE, heap |-> h2, dest |-> NULL,
                        next |-> l.next, fuel |-> l.fuel]
            h3 == IF l.exc THEN h2 ELSE [r.heap EXCEPT ![d].right = r.dest]
        IN  [exc |-> r.exc, heap |-> h3, dest |-> d, next |-> r.next, fuel |-> r.fuel]

\* ------------------------------------------------------- free-store steps
\* The live addresses after the deletes of `seq` (a result of destroy_tree).
Release(lv, seq) == lv \ Range(seq)

Count(seq, n) == Cardinality({i \in 1..Len(seq) : seq[i] = n})

Released(rel, seq) == [n \in Addr |-> rel[n] + Count(seq, n)]

\* The content of the free store after the deletes of `seq`: a deleted node
\* no longer holds its element and links.
Scrub(h, seq) == [n \in Addr |-> IF n \in Range(seq) THEN Node(NoValue) ELSE h[n]]

\* The live addresses after the `new` of addresses from+1 .. to.
Allocate(lv, from, to) == lv \cup ((from + 1)..to)

\* Tree t's root points at a deleted node.
Dangling(t) == trees[t].root # NULL /\ trees[t].root \notin live

\* The ways a call that dereferences the roots of the trees in T can end:
\* as the code says ("defined"), or, when one of them dangles, either on
\* what the deleted node now holds ("garbage") or with the process stopped.
Outcomes(T) == IF \E t \in T : Dangling(t) THEN {"garbage", "crash"} ELSE {"defined"}

\* The state after a call that dereferences the roots of the trees in T and,
\* run as written, leaves h, lv, rel, na, tr, ins, i and l, `threw` telling
\* whether a new-expression of the call threw std::bad_alloc.  The call
\* writes nothing to an output stream.
Commit(T, h, lv, rel, na, threw, tr, ins, i, l) ==
    \E out \in Outcomes(T) :
        IF out = "crash"
        THEN /\ ub' = "use_after_free"
             /\ crashed' = TRUE
             /\ os' = <<>>
             /\ UNCHANGED <<Compare, heap, live, released, nalloc, nfail, trees,
                            inserted, it, last>>
        ELSE /\ heap' = h
             /\ live' = lv
             /\ released' = rel
             /\ nalloc' = na
             /\ nfail' = IF threw THEN nfail + 1 ELSE nfail
             /\ trees' = tr
             /\ inserted' = ins
             /\ it' = i
             /\ last' = l
             /\ os' = <<>>
             /\ ub' = IF out = "garbage" THEN "use_after_free" ELSE ub
             /\ UNCHANGED <<Compare, crashed>>

\* The program runs as long as it has executed no undefined behaviour.
Running == ub = "none" /\ ~crashed

Alive(t) == trees[t].life = "alive"

Unborn(t) == trees[t].life = "unborn"

\* The elements held by the nodes of the subtree at `node`.
RECURSIVE Elements(_, _)
Elements(h, node) ==
    IF node = NULL THEN {}
    ELSE {h[node].data} \cup Elements(h, h[node].left) \cup Elements(h, h[node].right)

\* size_t size() const
size(t) == trees[t].node_count

\* The shape of the subtree at `node`, with the element at each position.
RECURSIVE Shape(_, _)
Shape(h, node) ==
    IF node = NULL THEN <<>>
    ELSE <<h[node].data, Shape(h, h[node].left), Shape(h, h[node].right)>>

\* The addresses of the nodes of the subtree at `node`.
RECURSIVE Nodes(_, _)
Nodes(h, node) ==
    IF node = NULL THEN {}
    ELSE {node} \cup Nodes(h, h[node].left) \cup Nodes(h, h[node].right)

\* What a caller can tell of tree t: its shape, its elements and its size().
TreeValue(t) == [shape |-> Shape(heap, trees[t].root), size |-> size(t)]

\* Tree t holds an element equal to v, wherever in the tree it is.
Holds(t, v) == \E e \in Elements(heap, trees[t].root) : equal(e, v)

\* The elements of S in ascending order of the ordering c.
RECURSIVE Ascending(_, _)
Ascending(c, S) ==
    IF S = {} THEN <<>>
    ELSE LET m == CHOOSE x \in S : \A y \in S \ {x} : compare(c, x, y)
         IN  <<m>> \o Ascending(c, S \ {m})

\* ------------------------------------------------------------------- Init
Init ==
    /\ Compare \in Orders
    /\ heap = [n \in Addr |-> Node(NoValue)]
    /\ live = {}
    /\ released = [n \in Addr |-> 0]
    /\ nalloc = 0
    /\ nfail = 0
    /\ trees = [t \in TreeIds |-> NoTree]
    /\ inserted = [t \in TreeIds |-> {}]
    /\ it = NoIterator
    /\ last = Call("none", "none", FALSE, 0)
    /\ os = <<>>
    /\ ub = "none"
    /\ crashed = FALSE

\* ---------------------------------------------------------------- actions
\* BinaryTree(): an empty tree.
DefaultConstruct(t) ==
    /\ Running
    /\ Unborn(t)
    /\ Commit({}, heap, live, released, nalloc, FALSE,
              [trees EXCEPT ![t] = Tree(NULL, 0, Compare)],
              inserted, NoIterator,
              Call("BinaryTree", "none", FALSE, 0))

\* void insert(const T& value)
Insert(t, value, allocOK) ==
    LET r == insert(heap, trees[t].node_count, trees[t].compare, trees[t].root,
                    value, allocOK, nalloc + 1)
    IN  /\ Running
        /\ Alive(t)
        /\ r.alloc => nalloc < MaxNodes
        /\ r.alloc \/ allocOK
        /\ r.exc = "bad_alloc" => nfail < MaxFail
        /\ Commit({t}, r.heap,
                  IF r.exc = "none" THEN Allocate(live, nalloc, nalloc + 1) ELSE live,
                  released,
                  IF r.exc = "none" THEN nalloc + 1 ELSE nalloc,
                  r.exc = "bad_alloc",
                  [trees EXCEPT ![t].node_count = r.count,
                                ![t].root = IF r.exc = "none" THEN r.ret ELSE @],
                  [inserted EXCEPT ![t] = IF r.exc = "none" THEN @ \cup {value} ELSE @],
                  NoIterator,
                  Call("insert", r.exc, FALSE, 0))

\* The loop of the range constructor from element i of seq on: insert(*it)
\* for each element, until one throws.  `fuel` is the number of `new` that
\* still succeed.  The result is that of the insert that threw, or of the
\* last one, with
\*   root  the member root after the loop
\*   next  the number of addresses handed out after the loop
RECURSIVE insert_range(_, _, _, _, _, _, _, _)
insert_range(h, count, c, root, seq, i, next, fuel) ==
    IF i > Len(seq) THEN
        [exc |-> "none", heap |-> h, count |-> count, root |-> root, next |-> next]
    ELSE
        LET r == insert(h, count, c, root, seq[i], fuel > 0, next + 1)
        IN  IF r.exc # "none"
            THEN [exc |-> r.exc, heap |-> r.heap, count |-> r.count, root |-> root,
                  next |-> next]
            ELSE insert_range(r.heap, r.count, c, r.ret, seq, i + 1, next + 1, fuel - 1)

\* The initial sequences of the range constructor.
Sequences == UNION {[1..n -> Values] : n \in 0..MaxSeq}

\* BinaryTree(InputIt first, InputIt last, Compare comp, Equal eq): the
\* member compare is a copy of comp.
RangeConstruct(t, seq, comp, fuel) ==
    LET r      == insert_range(heap, 0, comp, NULL, seq, 1, nalloc, fuel)
        undone == destroy_tree(r.heap, r.root)
    IN  /\ Running
        /\ Unborn(t)
        /\ nalloc + Len(seq) <= MaxNodes
        /\ r.exc = "bad_alloc" => nfail < MaxFail
        /\ r.exc # "bad_alloc" => fuel = Len(seq)
        /\ IF r.exc = "none"
           THEN Commit({}, r.heap, Allocate(live, nalloc, r.next), released, r.next, FALSE,
                       [trees EXCEPT ![t] = Tree(r.root, r.count, comp)],
                       [inserted EXCEPT ![t] = Range(seq)], NoIterator,
                       Call("BinaryTree(first,last)", "none", FALSE, 0))
           ELSE \* catch: destroy_tree(root); throw
                Commit({}, Scrub(r.heap, undone),
                       Release(Allocate(live, nalloc, r.next), undone),
                       Released(released, undone), r.next, r.exc = "bad_alloc",
                       trees, inserted, NoIterator,
                       Call("BinaryTree(first,last)", r.exc, FALSE, 0))

\* The number of `new` of a copy that succeed: all of them, or fewer.
Fuels(o) == 0..count_nodes(heap, trees[o].root)

\* BinaryTree(const BinaryTree& other)
CopyConstruct(t, o, fuel) ==
    LET r      == copy_subtree(heap, trees[o].root, nalloc, fuel)
        undone == destroy_tree(r.heap, r.dest)
    IN  /\ Running
        /\ Unborn(t)
        /\ Alive(o)
        /\ nalloc + count_nodes(heap, trees[o].root) <= MaxNodes
        /\ r.exc => nfail < MaxFail
        /\ IF ~r.exc
           THEN Commit({o}, r.heap, Allocate(live, nalloc, r.next), released, r.next, FALSE,
                       [trees EXCEPT ![t] =
                           Tree(r.dest,
                                IF trees[o].root # NULL THEN trees[o].node_count ELSE 0,
                                trees[o].compare)],
                       [inserted EXCEPT ![t] = inserted[o]], NoIterator,
                       Call("BinaryTree(other)", "none", FALSE, 0))
           ELSE \* catch: destroy_tree(root); throw
                Commit({o}, Scrub(r.heap, undone),
                       Release(Allocate(live, nalloc, r.next), undone),
                       Released(released, undone), r.next, TRUE,
                       trees, inserted, NoIterator,
                       Call("BinaryTree(other)", "bad_alloc", FALSE, 0))

\* operator= without its test `this != &other`.
Assign_unguarded(t, o, fuel) ==
    LET old    == destroy_tree(heap, trees[t].root)
        h0     == Scrub(heap, old)
        r      == copy_subtree(h0, trees[o].root, nalloc, fuel)
        undone == destroy_tree(r.heap, r.dest)
    IN  /\ Running
        /\ Alive(t)
        /\ Alive(o)
        /\ nalloc + count_nodes(heap, trees[o].root) <= MaxNodes
        /\ r.exc => nfail < MaxFail
        /\ IF ~r.exc
           THEN Commit({t, o}, r.heap,
                       Allocate(Release(live, old), nalloc, r.next),
                       Released(released, old), r.next, FALSE,
                       [trees EXCEPT ![t] =
                           Tree(r.dest,
                                IF trees[o].root # NULL
                                THEN trees[o].node_count ELSE 0,
                                trees[o].compare)],
                       [inserted EXCEPT ![t] = inserted[o]], NoIterator,
                       Call("operator=", "none", FALSE, 0))
           ELSE Commit({t, o}, Scrub(r.heap, undone),
                       Release(Allocate(Release(live, old), nalloc, r.next), undone),
                       Released(Released(released, old), undone), r.next, TRUE,
                       [trees EXCEPT ![t] = Tree(r.dest, 0, trees[o].compare)],
                       [inserted EXCEPT ![t] = {}], NoIterator,
                       Call("operator=", "bad_alloc", FALSE, 0))

\* BinaryTree& operator=(const BinaryTree& other)
Assign(t, o, fuel) ==
    LET old    == destroy_tree(heap, trees[t].root)
        h0     == Scrub(heap, old)
        r      == copy_subtree(h0, trees[o].root, nalloc, fuel)
        undone == destroy_tree(r.heap, r.dest)
    IN  /\ Running
        /\ Alive(t)
        /\ Alive(o)
        /\ IF t = o
           THEN \* this == &other: nothing is done
                /\ fuel = 0
                /\ Commit({}, heap, live, released, nalloc, FALSE, trees, inserted,
                          NoIterator, Call("operator=", "none", FALSE, 0))
           ELSE /\ nalloc + count_nodes(heap, trees[o].root) <= MaxNodes
                /\ r.exc => nfail < MaxFail
                /\ IF ~r.exc
                   THEN Commit({t, o}, r.heap,
                               Allocate(Release(live, old), nalloc, r.next),
                               Released(released, old), r.next, FALSE,
                               [trees EXCEPT ![t] =
                                   Tree(r.dest,
                                        IF trees[o].root # NULL
                                        THEN trees[o].node_count ELSE 0,
                                        trees[o].compare)],
                               [inserted EXCEPT ![t] = inserted[o]], NoIterator,
                               Call("operator=", "none", FALSE, 0))
                   ELSE \* catch: destroy_tree(root); throw -- root keeps its value
                        Commit({t, o}, Scrub(r.heap, undone),
                               Release(Allocate(Release(live, old), nalloc, r.next), undone),
                               Released(Released(released, old), undone), r.next, TRUE,
                               [trees EXCEPT ![t] = Tree(r.dest, 0, trees[o].compare)],
                               [inserted EXCEPT ![t] = {}], NoIterator,
                               Call("operator=", "bad_alloc", FALSE, 0))

\* subtree that hands the nodes it finds over to its result and takes them
\* off the count of the tree it is called on.
Subtree_handing_over(t, o, value, fuel) ==
    LET subtree_root == find_subtree(heap, trees[o].compare, trees[o].root, value)
        n            == count_nodes(heap, subtree_root)
    IN  /\ Running
        /\ Unborn(t)
        /\ Alive(o)
        /\ fuel = 0
        /\ Commit({o}, heap, live, released, nalloc, FALSE,
                  [trees EXCEPT ![t] = Tree(subtree_root, n, Compare),
                                ![o].node_count = @ - n],
                  [inserted EXCEPT ![t] = Elements(heap, subtree_root)], NoIterator,
                  Call("subtree", "none", subtree_root # NULL, 0))

\* BinaryTree subtree(const T& value) const, its result constructed in t
\* (the returned local is the caller's object: copy elision).  The local is
\* made by BinaryTree(), so that its member compare is Compare(), whatever
\* the compare of the tree it is extracted from.
Subtree(t, o, value, fuel) ==
    LET subtree_root == find_subtree(heap, trees[o].compare, trees[o].root, value)
        r      == copy_subtree(heap, subtree_root, nalloc, fuel)
        undone == destroy_tree(r.heap, r.dest)
    IN  /\ Running
        /\ Unborn(t)
        /\ Alive(o)
        /\ fuel \in 0..count_nodes(heap, subtree_root)
        /\ nalloc + count_nodes(heap, subtree_root) <= MaxNodes
        /\ r.exc => nfail < MaxFail
        /\ IF ~r.exc
           THEN /\ fuel = count_nodes(heap, subtree_root)
                /\ Commit({o}, r.heap, Allocate(live, nalloc, r.next), released, r.next,
                          FALSE,
                          [trees EXCEPT ![t] =
                              Tree(r.dest, count_nodes(r.heap, r.dest), Compare)],
                          [inserted EXCEPT ![t] = Elements(r.heap, r.dest)], NoIterator,
                          Call("subtree", "none", subtree_root # NULL, 0))
           ELSE \* the exception leaves through ~BinaryTree() of the local
                Commit({o}, Scrub(r.heap, undone),
                       Release(Allocate(live, nalloc, r.next), undone),
                       Released(released, undone), r.next, TRUE,
                       trees, inserted, NoIterator,
                       Call("subtree", "bad_alloc", FALSE, 0))

\* bool exists(const T& value) const
Exists(t, value) ==
    /\ Running
    /\ Alive(t)
    /\ Commit({t}, heap, live, released, nalloc, FALSE, trees, inserted, NoIterator,
              Call("exists", "none",
                   exists(heap, trees[t].compare, trees[t].root, value), 0))

\* size_t size() const
Size(t) ==
    /\ Running
    /\ Alive(t)
    /\ Commit({}, heap, live, released, nalloc, FALSE, trees, inserted, NoIterator,
              Call("size", "none", FALSE, trees[t].node_count))

\* ~BinaryTree()
Destroy(t) ==
    LET seq == destroy_tree(heap, trees[t].root)
    IN  /\ Running
        /\ Alive(t)
        /\ Commit({t}, Scrub(heap, seq), Release(live, seq), Released(released, seq),
                  nalloc, FALSE,
                  [trees EXCEPT ![t] = DeadTree],
                  [inserted EXCEPT ![t] = {}],
                  NoIterator,
                  Call("~BinaryTree", "none", FALSE, 0))

\* ------------------------------------------------------------ const_iterator
\* while (p->left != nullptr) p = p->left: the left-most node below `node`.
RECURSIVE leftmost(_, _)
leftmost(h, node) == IF h[node].left # NULL THEN leftmost(h, h[node].left) ELSE node

\* The while loop of findNext's else branch.  `ancestor != node` holds of a
\* null ancestor as well, and the loop then reads ancestor->data through the
\* null pointer: fault.
RECURSIVE descend(_, _, _, _)
descend(h, node, ancestor, successor) ==
    IF ancestor = node THEN [next |-> successor, fault |-> FALSE]
    ELSE IF ancestor = NULL THEN [next |-> NULL, fault |-> TRUE]
    ELSE IF OperatorLess(h[node].data, h[ancestor].data)
         THEN descend(h, node, h[ancestor].left, ancestor)
         ELSE descend(h, node, h[ancestor].right, successor)

\* Node* findNext(Node* node) const
findNext(h, root, node) ==
    IF h[node].right # NULL
    THEN [next |-> leftmost(h, h[node].right), fault |-> FALSE]
    ELSE descend(h, node, root, NULL)

\* const_iterator(Node* node, Node* root), with the elements read through it
\* so far in `out`.
const_iterator(h, t, node, root) ==
    LET current == IF node # NULL THEN leftmost(h, node) ELSE NULL
    IN  [active |-> TRUE, t |-> t, current |-> current, root |-> root, steps |-> 0,
         out |-> IF current # NULL THEN <<h[current].data>> ELSE <<>>]

\* The iterator after operator++ has set current to `next`, and operator*
\* has read the element there.
Moved(i, h, next) ==
    [i EXCEPT !.current = next, !.steps = @ + 1,
              !.out = IF next # NULL THEN Append(@, h[next].data) ELSE @]

\* const_iterator begin() const, the start of a traversal of t.
Begin(t) ==
    /\ Running
    /\ Alive(t)
    /\ Commit({t}, heap, live, released, nalloc, FALSE, trees, inserted,
              const_iterator(heap, t, trees[t].root, trees[t].root),
              Call("begin", "none", FALSE, 0))

\* const_iterator& operator++().  A traversal is advanced at most once past
\* its end.
Advance ==
    LET r == IF it.current # NULL THEN findNext(heap, it.root, it.current)
             ELSE [next |-> NULL, fault |-> FALSE]
    IN  /\ Running
        /\ it.active
        /\ it.steps <= count_nodes(heap, it.root)
        /\ last' = Call("operator++", "none", FALSE, 0)
        /\ os' = <<>>
        /\ UNCHANGED <<Compare, heap, live, released, nalloc, nfail, trees, inserted>>
        /\ IF ~r.fault
           THEN /\ it' = Moved(it, heap, r.next)
                /\ UNCHANGED <<ub, crashed>>
           ELSE \* the read through the null pointer stops the process, or
                \* yields some value and the loop ends on some pointer
                /\ ub' = "null_dereference"
                /\ \/ crashed' = TRUE /\ it' = it
                   \/ \E g \in {NULL} \cup live :
                          crashed' = crashed /\ it' = Moved(it, heap, g)

\* ------------------------------------------------------------ output
\* The predicates given to printIF: a predicate holds of the elements whose
\* id is in P.  IsEven is the one of the even ids.
Predicates == SUBSET (1..MaxId)

\* Predicate::operator()(const T& value)
pred(P, value) == value.id \in P

\* std::ostream& operator<<(std::ostream& os, const BinaryTree& tree)
Output(t) ==
    /\ Running
    /\ Alive(t)
    /\ \E way \in Outcomes({t}) :
           IF way = "crash"
           THEN /\ ub' = "use_after_free"
                /\ crashed' = TRUE
                /\ UNCHANGED <<Compare, heap, live, released, nalloc, nfail, trees,
                               inserted, it, last, os>>
           ELSE /\ os' = print_in_order(heap, trees[t].root)
                /\ last' = Call("operator<<", "none", FALSE, 0)
                /\ it' = NoIterator
                /\ ub' = IF way = "garbage" THEN "use_after_free" ELSE ub
                /\ UNCHANGED <<Compare, heap, live, released, nalloc, nfail, trees,
                               inserted, crashed>>

\* The for loop of printIF from `current` on, `out` being what it has
\* written so far: the ways it can end, each with
\*   out      what the loop has written
\*   crashed  the loop stopped the process
\*   ub       the loop read through a null pointer
\* A findNext that reads through the null pointer stops the process or
\* returns some pointer, from which the loop goes on; the loop is followed
\* through one such pointer, and ends or stops the process at a second.
RECURSIVE loop(_, _, _, _, _, _, _)
loop(h, lv, root, current, P, out, faulted) ==
    IF current = NULL
    THEN {[out |-> out, crashed |-> FALSE, ub |-> faulted]}
    ELSE LET written == IF pred(P, h[current].data)
                        THEN Append(out, h[current].data) ELSE out
             r       == findNext(h, root, current)
         IN  IF ~r.fault
             THEN loop(h, lv, root, r.next, P, written, faulted)
             ELSE {[out |-> written, crashed |-> TRUE, ub |-> TRUE]} \cup
                  (IF faulted
                   THEN {[out |-> written, crashed |-> FALSE, ub |-> TRUE]}
                   ELSE UNION {loop(h, lv, root, g, P, written, TRUE) :
                                 g \in {NULL} \cup lv})

\* void printIF(const BinaryTree& tree, Predicate pred)
printIF(t, P) ==
    LET root  == trees[t].root
        first == const_iterator(heap, t, root, root).current
    IN  /\ Running
        /\ Alive(t)
        /\ \E way \in Outcomes({t}) :
               IF way = "crash"
               THEN /\ ub' = "use_after_free"
                    /\ crashed' = TRUE
                    /\ UNCHANGED <<Compare, heap, live, released, nalloc, nfail, trees,
                                   inserted, it, last, os>>
               ELSE \E r \in loop(heap, live, root, first, P, <<>>, FALSE) :
                        /\ os' = r.out
                        /\ last' = Call("printIF", "none", FALSE, 0)
                        /\ it' = NoIterator
                        /\ crashed' = r.crashed
                        /\ ub' = IF r.ub THEN "null_dereference"
                                 ELSE IF way = "garbage" THEN "use_after_free"
                                 ELSE ub
                        /\ UNCHANGED <<Compare, heap, live, released, nalloc, nfail,
                                       trees, inserted>>

\* ------------------------------------------------------------ specifications
\* Every way a tree is constructed, changed and destroyed.  The two objects
\* are interchangeable, so it is A that the range constructor builds and B
\* that is constructed from another tree.  The range constructor is called
\* with its default argument, comp = Compare().
Next ==
    \/ \E t \in TreeIds : DefaultConstruct(t)
    \/ \E seq \in Sequences, fuel \in 0..MaxSeq : RangeConstruct("A", seq, Compare, fuel)
    \/ \E fuel \in Fuels("A") : CopyConstruct("B", "A", fuel)
    \/ \E t, o \in TreeIds : \E fuel \in Fuels(o) : Assign(t, o, fuel)
    \/ \E v \in Values, fuel \in 0..MaxNodes : Subtree("B", "A", v, fuel)
    \/ \E t \in TreeIds, v \in Values, ok \in BOOLEAN : Insert(t, v, ok)
    \/ \E t \in TreeIds : Destroy(t)

\* The instantiation of main.cpp: BinaryTree<CustomType, CustomTypeCompare,
\* CustomTypeEqual>.
InitMain == Init /\ Compare = "less"

Spec == InitMain /\ [][Next]_vars

\* One tree, of either ordering, built by insert calls alone, queried and
\* traversed.
NextInsert ==
    \/ DefaultConstruct("A")
    \/ \E v \in Values, ok \in BOOLEAN : Insert("A", v, ok)
    \/ \E v \in Values : Exists("A", v)
    \/ Size("A")
    \/ Begin("A")
    \/ Advance

SpecInsert == Init /\ [][NextInsert]_vars

\* A tree A built by insert calls and a tree B that exists only as a copy of
\* it, by the copy constructor, each then changed by insert calls and by
\* assignments of the other.
NextCopy ==
    \/ DefaultConstruct("A")
    \/ \E fuel \in Fuels("A") : CopyConstruct("B", "A", fuel)
    \/ \E t, o \in TreeIds : \E fuel \in Fuels(o) : Assign(t, o, fuel)
    \/ \E t \in TreeIds, v \in Values, ok \in BOOLEAN : Insert(t, v, ok)

SpecCopy == InitMain /\ [][NextCopy]_vars

\* A tree A built by the range constructor from a sequence and a functor
\* comp, which need not be Compare(), a tree B extracted from it by subtree,
\* and insert calls on both.
NextSubtree ==
    \/ \E seq \in Sequences, comp \in Orders, fuel \in 0..MaxSeq :
           RangeConstruct("A", seq, comp, fuel)
    \/ \E v \in Values, fuel \in 0..MaxNodes : Subtree("B", "A", v, fuel)
    \/ \E t \in TreeIds, v \in Values, ok \in BOOLEAN : Insert(t, v, ok)

SpecSubtree == InitMain /\ [][NextSubtree]_vars

\* A tree built by the range constructor, from any sequence and functor,
\* changed by insert calls and destroyed.
NextRange ==
    \/ \E seq \in Sequences, comp \in Orders, fuel \in 0..MaxSeq :
           RangeConstruct("A", seq, comp, fuel)
    \/ \E v \in Values, ok \in BOOLEAN : Insert("A", v, ok)
    \/ Destroy("A")

SpecRange == InitMain /\ [][NextRange]_vars

\* One tree, of either ordering, built by insert calls, and every call that
\* reads it: exists, size, subtree, a traversal, operator<< and printIF.
NextRead ==
    \/ DefaultConstruct("A")
    \/ \E v \in Values, ok \in BOOLEAN : Insert("A", v, ok)
    \/ \E v \in Values : Exists("A", v)
    \/ Size("A")
    \/ \E v \in Values, fuel \in 0..MaxNodes : Subtree("B", "A", v, fuel)
    \/ Begin("A")
    \/ Advance
    \/ Output("A")
    \/ \E P \in Predicates : printIF("A", P)

SpecRead == Init /\ [][NextRead]_vars

\* ------------------------------------------------------------------ claims
\* The subtree at `node` is a search tree of the ordering c: what is left of
\* a node orders strictly before its element, what is right strictly after.
RECURSIVE Ordered(_, _, _)
Ordered(h, c, node) ==
    \/ node = NULL
    \/ /\ \A e \in Elements(h, h[node].left) : compare(c, e, h[node].data)
       /\ \A e \in Elements(h, h[node].right) : compare(c, h[node].data, e)
       /\ Ordered(h, c, h[node].left)
       /\ Ordered(h, c, h[node].right)

\* C1: after any sequence of insert calls, accepted or rejected, on an empty
\* tree, every node has only elements ordering strictly before its own in
\* its left subtree and only elements ordering strictly after it in its
\* right subtree, by the tree's configured ordering.
C1_SearchTreeOrder ==
    \A t \in TreeIds : Alive(t) => Ordered(heap, trees[t].compare, trees[t].root)

\* A tree of three nodes, its root with a left and a right child, whose last
\* insert call was rejected as a duplicate.
C1_Witness ==
    /\ Alive("A")
    /\ count_nodes(heap, trees["A"].root) = 3
    /\ heap[trees["A"].root].left # NULL
    /\ heap[trees["A"].root].right # NULL
    /\ last.op = "insert"
    /\ last.exc = "runtime_error"

\* C2: in every reachable state of a tree, size() is the number of nodes
\* reachable from its root.
C2_SizeIsNodeCount ==
    \A t \in TreeIds : Alive(t) => size(t) = count_nodes(heap, trees[t].root)

C4_ExistsIffInserted ==
    [][\A t \in TreeIds, v \in Values :
          Exists(t, v) =>
              /\ last'.op = "exists"
              /\ last'.found <=> \E e \in inserted[t] : equal(e, v)]_vars

\* exists found an element of a tree of three nodes that is not at its root.
C4_Witness ==
    /\ last.op = "exists"
    /\ last.found
    /\ Alive("A")
    /\ count_nodes(heap, trees["A"].root) = 3
    /\ \E v \in Values :
          /\ exists(heap, trees["A"].compare, trees["A"].root, v)
          /\ ~equal(heap[trees["A"].root].data, v)

\* C5: a traversal from begin() reads the elements of the tree in strictly
\* ascending order of the configured ordering, each once: no step of it is
\* undefined, after k advances it is at the (k+1)-th element of that order
\* and has read the first k+1, and from the last element it moves to the
\* end marker, having read them all.
C5_TraversalAscending ==
    it.active =>
        LET all == Ascending(trees[it.t].compare, Elements(heap, trees[it.t].root))
        IN  /\ ub = "none"
            /\ it.current = NULL <=> it.steps >= Len(all)
            /\ it.current # NULL =>
                   /\ heap[it.current].data = all[it.steps + 1]
                   /\ it.out = SubSeq(all, 1, it.steps + 1)
            /\ it.current = NULL => it.out = all

\* C6: a traversal from begin() is at end() after exactly size() advances and
\* not before, follows no missing link, and stays at end() when advanced
\* there.
C6_EndAfterSizeAdvances ==
    it.active =>
        /\ ub = "none"
        /\ it.current = NULL <=> it.steps >= size(it.t)

\* C7: a copy-assignment that throws leaves its target as it was before the
\* assignment: same elements, shape and size.
C7_FailedAssignKeepsTarget ==
    [][\A t, o \in TreeIds, fuel \in 0..MaxNodes :
          (Assign(t, o, fuel) /\ last'.op = "operator=" /\ last'.exc = "bad_alloc") =>
              TreeValue(t)' = TreeValue(t)]_vars

\* C8: no node is released twice, none is read after its release, and once
\* every tree is destroyed every node ever allocated has been released once.
C8_ReleasedExactlyOnce ==
    /\ \A n \in Addr : released[n] <= 1
    /\ ub # "use_after_free"
    /\ (\A t \in TreeIds : ~Alive(t)) => \A n \in 1..nalloc : released[n] = 1

\* C9: an insert that throws because its node cannot be allocated leaves the
\* tree as it was: same shape, elements and size().
C9_FailedAllocationAtomic ==
    [][\A t \in TreeIds, v \in Values :
          (Insert(t, v, FALSE) /\ last'.op = "insert" /\ last'.exc = "bad_alloc") =>
              TreeValue(t)' = TreeValue(t)]_vars

\* C10: a tree and its copy share no node, and so do any two trees; an
\* insert call on one tree, whatever its outcome, leaves the shape, the
\* elements and the size of every other tree as they were.
C10_CopyIndependent ==
    [][/\ \A t, u \in TreeIds :
             (t # u /\ Alive(t)' /\ Alive(u)') =>
                 (Nodes(heap, trees[t].root) \cap Nodes(heap, trees[u].root))' = {}
       /\ \A t, u \in TreeIds, v \in Values, ok \in BOOLEAN :
             (Insert(t, v, ok) /\ ~Dangling(t) /\ u # t) =>
                 TreeValue(u)' = TreeValue(u)]_vars

\* B, which exists as a copy of A alone, has two nodes or more, and an insert
\* call has since made the two trees differ.
C10_Witness ==
    /\ Alive("A")
    /\ Alive("B")
    /\ last.op = "insert"
    /\ last.exc = "none"
    /\ count_nodes(heap, trees["B"].root) >= 2
    /\ count_nodes(heap, trees["A"].root) >= 2
    /\ TreeValue("A") # TreeValue("B")

C11_WitnessAbsent ==
    /\ last.op = "subtree"
    /\ last.exc = "none"
    /\ ~last.found
    /\ Alive("A")
    /\ Alive("B")
    /\ count_nodes(heap, trees["A"].root) >= 2
    /\ trees["B"].root = NULL
    /\ size("B") = 0

\* The index of the first element of seq that equals an earlier one, 0 when
\* there is none.
FirstDuplicate(seq) ==
    LET D == {j \in 1..Len(seq) : \E i \in 1..(j - 1) : equal(seq[i], seq[j])}
    IN  IF D = {} THEN 0 ELSE CHOOSE j \in D : \A k \in D : j <= k

\* C12: the range constructor, given a sequence that holds two equal values,
\* throws the duplicate-insertion error to its caller and constructs no
\* tree, and every node it created for the elements before the duplicate is
\* released, once, none of them left allocated.
C12_DuplicateInSequence ==
    [][\A t \in TreeIds, seq \in Sequences, comp \in Orders :
          (RangeConstruct(t, seq, comp, Len(seq)) /\ FirstDuplicate(seq) # 0) =>
              /\ last'.op = "BinaryTree(first,last)"
              /\ last'.exc = "runtime_error"
              /\ trees' = trees
              /\ nalloc' = nalloc + FirstDuplicate(seq) - 1
              /\ live' = live
              /\ \A n \in (nalloc + 1)..nalloc' : released'[n] = 1
              /\ \A n \in 1..nalloc : released'[n] = released[n]]_vars

\* The range constructor has thrown the duplicate-insertion error after it
\* had created two nodes, and has left no tree and no node.
C12_Witness ==
    /\ last.op = "BinaryTree(first,last)"
    /\ last.exc = "runtime_error"
    /\ \A t \in TreeIds : Unborn(t)
    /\ nalloc = 2
    /\ live = {}
    /\ released[1] = 1
    /\ released[2] = 1
    /\ nfail = 0

\* C13: in every reachable state of a tree, no two of its nodes hold elements
\* that are equal under the equality relation, records that differ in their
\* names alone included.
C13_NoEqualElements ==
    \A t \in TreeIds :
        (Alive(t) /\ ~Dangling(t)) =>
            \A n, m \in Nodes(heap, trees[t].root) :
                n # m => ~equal(heap[n].data, heap[m].data)

\* C20: a tree returned by subtree has the ordering relation of the tree it
\* was extracted from, and is, after any insert calls on it, a search tree
\* of that relation.  (B exists only as a result of A.subtree, and nothing
\* changes the relation of A.)
C20_SubtreeKeepsOrdering ==
    (Alive("A") /\ Alive("B") /\ ~Dangling("B")) =>
        /\ trees["B"].compare = trees["A"].compare
        /\ Ordered(heap, trees["A"].compare, trees["B"].root)

\* C14: after B is copy-constructed from A, or assigned A, B is structurally
\* identical to A: the same shape with the same element at each position,
\* and the same size().
C14_CopyIdentical ==
    [][\A t, o \in TreeIds, fuel \in 0..MaxNodes :
          (/\ CopyConstruct(t, o, fuel) \/ (t # o /\ Assign(t, o, fuel))
           /\ ~Dangling(t)
           /\ ~Dangling(o)
           /\ last'.exc = "none") =>
              TreeValue(t)' = TreeValue(o)']_vars

\* The elements of seq of which the predicate P holds, in the order of seq.
RECURSIVE Selected(_, _)
Selected(P, seq) ==
    IF seq = <<>> THEN <<>>
    ELSE (IF pred(P, Head(seq)) THEN <<Head(seq)>> ELSE <<>>) \o Selected(P, Tail(seq))

\* C15: operator<< writes exactly the elements that a traversal of the same
\* tree from begin() to end() reads, in the same order, whatever the
\* ordering relation of the tree: the traversal ends, in one way only, with
\* no undefined step, having read what operator<< wrote.
C15_OutputIsTraversal ==
    [][\A t \in TreeIds :
          (Output(t) /\ ~Dangling(t)) =>
              LET root  == trees[t].root
                  first == const_iterator(heap, t, root, root).current
              IN  loop(heap, live, root, first, 0..MaxId, <<>>, FALSE) =
                      {[out |-> os', crashed |-> FALSE, ub |-> FALSE]}]_vars

\* C17: printIF writes exactly the elements of the tree of which the
\* predicate holds, each once, in ascending order of the tree's ordering
\* relation, with no undefined step.
C17_PrintIFSelects ==
    [][\A t \in TreeIds, P \in Predicates :
          (printIF(t, P) /\ ~Dangling(t)) =>
              /\ ub' = "none"
              /\ ~crashed'
              /\ os' = Selected(P, Ascending(trees[t].compare,
                                             Elements(heap, trees[t].root)))]_vars

\* C18: exists, size, subtree, begin, operator++ with operator*, operator<<
\* and printIF leave the tree they are called on as it was: the same nodes,
\* none released, the same shape, elements and size().
C18_ReadsChangeNothing ==
    [][\A t \in TreeIds :
          (\/ \E v \in Values : Exists(t, v)
           \/ Size(t)
           \/ \E u \in TreeIds, v \in Values, fuel \in 0..MaxNodes : Subtree(u, t, v, fuel)
           \/ Begin(t)
           \/ Advance /\ it.t = t
           \/ Output(t)
           \/ \E P \in Predicates : printIF(t, P)) =>
              /\ trees'[t] = trees[t]
              /\ TreeValue(t)' = TreeValue(t)
              /\ \A n \in Nodes(heap, trees[t].root) : heap'[n] = heap[n] /\ n \in live']_vars

\* A tree of three nodes of which a subtree was taken, and that a traversal
\* has since read: it is at the third element, after two advances.
C18_Witness ==
    /\ Alive("A")
    /\ Alive("B")
    /\ count_nodes(heap, trees["A"].root) = 3
    /\ count_nodes(heap, trees["B"].root) >= 1
    /\ last.op = "operator++"
    /\ it.active
    /\ it.steps = 2
    /\ it.current # NULL
    /\ ub = "none"

\* C16: the assignment of a tree to itself does nothing: the tree has the
\* same nodes, shape, elements and size() after it, no node is released and
\* none allocated, and it throws nothing.
C16_SelfAssignNoOp ==
    [][\A t \in TreeIds, fuel \in 0..MaxNodes :
          Assign(t, t, fuel) =>
              /\ last'.op = "operator="
              /\ last'.exc = "none"
              /\ trees'[t] = trees[t]
              /\ TreeValue(t)' = TreeValue(t)
              /\ heap' = heap
              /\ live' = live
              /\ released' = released
              /\ nalloc' = nalloc]_vars

\* A tree of two nodes or more was assigned to itself: the last call was an
\* assignment, and there is no other tree.
C16_Witness ==
    /\ last.op = "operator="
    /\ last.exc = "none"
    /\ Alive("A")
    /\ Unborn("B")
    /\ count_nodes(heap, trees["A"].root) >= 2
    /\ size("A") = count_nodes(heap, trees["A"].root)

\* C19: an insert(v) that returns changes the tree only by one new leaf that
\* holds v, at the missing child position where the descent for v ends, and
\* by size() growing by one: the root stays the root, every node the tree
\* had keeps its element and its children, but for the one child link that
\* was missing and is now the leaf.
C19_InsertAddsLeaf ==
    [][\A t \in TreeIds, v \in Values :
          (Insert(t, v, TRUE) /\ ~Dangling(t) /\ last'.op = "insert" /\ last'.exc = "none") =>
              LET old  == Nodes(heap, trees[t].root)
                  new  == Nodes(heap', trees'[t].root)
                  leaf == nalloc'
                  c    == trees[t].compare
              IN  /\ leaf \notin old
                  /\ leaf \notin live
                  /\ new = old \cup {leaf}
                  /\ heap'[leaf] = Node(v)
                  /\ size(t)' = size(t) + 1
                  /\ trees'[t].root = IF old = {} THEN leaf ELSE trees[t].root
                  /\ \A n \in old :
                         /\ heap'[n].data = heap[n].data
                         /\ heap'[n].left = (IF heap[n].left = NULL
                                                 /\ leaf \in Nodes(heap', heap'[n].left)
                                             THEN leaf ELSE heap[n].left)
                         /\ heap'[n].right = (IF heap[n].right = NULL
                                                  /\ leaf \in Nodes(heap', heap'[n].right)
                                              THEN leaf ELSE heap[n].right)
                         \* the leaf is below n on the side the descent takes at n
                         /\ leaf \in Nodes(heap', heap'[n].left) =>
                                compare(c, v, heap[n].data)
                         /\ leaf \in Nodes(heap', heap'[n].right) =>
                                ~compare(c, v, heap[n].data)
                  /\ \A n \in Addr \ new : heap'[n] = heap[n]]_vars

\* An insert has returned after it added the third node of a tree as a
\* child of a node that is not the root.
C19_Witness ==
    /\ Alive("A")
    /\ last.op = "insert"
    /\ last.exc = "none"
    /\ nalloc = 3
    /\ Nodes(heap, trees["A"].root) = {1, 2, 3}
    /\ heap[trees["A"].root].left # 3
    /\ heap[trees["A"].root].right # 3
    /\ size("A") = 3

\* C21: for a tree built by insert calls and any value v, subtree(v) returns
\* a non-empty tree exactly when exists(v) is true, and the root of a
\* non-empty result holds the element of the tree that equals v.
C21_SubtreeIffExists ==
    [][\A t, o \in TreeIds, v \in Values, fuel \in 0..MaxNodes :
          (Subtree(t, o, v, fuel) /\ last'.op = "subtree" /\ last'.exc = "none") =>
              LET found == exists(heap, trees[o].compare, trees[o].root, v)
                  root  == trees'[t].root
              IN  /\ root # NULL <=> found
                  /\ size(t)' > 0 <=> found
                  /\ root # NULL =>
                         /\ equal(heap'[root].data, v)
                         /\ heap'[root].data \in Elements(heap, trees[o].root)]_vars

\* subtree has returned a non-empty tree whose root holds an element that is
\* not at the root of the tree of three nodes it was called on.
C21_Witness ==
    /\ last.op = "subtree"
    /\ last.exc = "none"
    /\ last.found
    /\ Alive("A")
    /\ Alive("B")
    /\ count_nodes(heap, trees["A"].root) = 3
    /\ trees["B"].root # NULL
    /\ heap[trees["B"].root].data # heap[trees["A"].root].data
    /\ exists(heap, trees["A"].compare, trees["A"].root, heap[trees["B"].root].data)

\* The sequence seq of deletes of the tree at `node` is in post-order: it
\* holds every node of the tree once, and every node after all the nodes of
\* its left and right subtrees.
PostOrder(h, node, seq) ==
    /\ Range(seq) = Nodes(h, node)
    /\ Len(seq) = Cardinality(Nodes(h, node))
    /\ \A i \in 1..Len(seq) :
           \A m \in Nodes(h, h[seq[i]].left) \cup Nodes(h, h[seq[i]].right) :
               \E j \in 1..(i - 1) : seq[j] = m

\* C22: the destruction of a tree deletes its nodes in post-order, no node
\* before every node of its left and right subtrees, and ends with every
\* node of the tree deleted, once.
C22_PostOrderRelease ==
    [][\A t \in TreeIds :
          (Destroy(t) /\ ~Dangling(t)) =>
              LET seq == destroy_tree(heap, trees[t].root)
              IN  /\ PostOrder(heap, trees[t].root, seq)
                  /\ last'.op = "~BinaryTree"
                  /\ live' = live \ Nodes(heap, trees[t].root)
                  /\ \A n \in Nodes(heap, trees[t].root) : released'[n] = released[n] + 1
                  /\ \A n \in Addr \ Nodes(heap, trees[t].root) : released'[n] = released[n]]_vars

\* A tree of three nodes was destroyed, and each of its nodes released once.
C22_Witness ==
    /\ last.op = "~BinaryTree"
    /\ trees["A"].life = "dead"
    /\ nalloc = 3
    /\ nfail = 0
    /\ live = {}
    /\ \A n \in 1..3 : released[n] = 1

====
